---- MODULE Spec2Model ----
(***************************************************************************)
(* A model of src/fs/feature/git.rs: the Git cache assembled from the      *)
(* user's input paths (GitCache::from_iter), the lazily populated,         *)
(* lock-protected caches of each discovered repository (GitRepo), and the  *)
(* status index with its file / directory lookups (GitStatuses).           *)
(*                                                                         *)
(* A path is the sequence of its components, as std::path::Path compares   *)
(* them: the root component "/" comes first in an absolute path.           *)
(***************************************************************************)
EXTENDS Integers, Sequences, FiniteSets, TLC

VARIABLES
    world,      \* the file system: the work trees and bare repositories on disk
    gitDirEnv,  \* the GIT_DIR environment variable, or NoEnv
    phase,      \* position of from_iter: "env", "loop", "built"
    consumed,   \* number of items the input iterator has yielded
    inputs,     \* observation: the items yielded, and whether each was discovered
    git,        \* the GitCache: [repos, misses]
    attempts,   \* observation: the calls of GitRepo::discover made so far
    statuses,   \* per repository: the statuses cache, Option<GitStatuses>
    submodules, \* per repository: relative_submodule_paths, Option<Result<..>>
    statusesLock,   \* per repository: the RwLock around statuses
    submodulesLock, \* per repository: the RwLock around relative_submodule_paths
    repoMutex,  \* per repository: the thread holding the Mutex of repo, or 0
    pc,         \* per thread: its position in the query it runs
    call,       \* per thread: the query it runs or ran last
    owner,      \* per thread: the repository the query was delegated to, or 0
    result,     \* per thread: what its last query returned
    scans,      \* observation: per repository, the runs of repo_to_statuses
    enumerations, \* observation: per repository, the runs of repo.submodules()
    scan,       \* repo_to_statuses taken alone: its position and its Vec
    lookup,     \* GitStatuses::status taken alone: the last call and its result
    mapper      \* the two reducers taken alone: a flag set and what they gave

buildVars == <<world, gitDirEnv, phase, consumed, inputs, git, attempts>>
cacheVars == <<statuses, submodules>>
lockVars == <<statusesLock, submodulesLock, repoMutex>>
threadVars == <<pc, call, owner, result>>
countVars == <<scans, enumerations>>
queryVars == <<cacheVars, lockVars, threadVars, countVars>>
statusVars == <<scan, lookup, mapper>>

vars == <<buildVars, queryVars, statusVars>>

-----------------------------------------------------------------------------
(* Paths *)

\* Path::starts_with: base is a component-wise prefix of path.
StartsWith(path, base) ==
    /\ Len(base) <= Len(path)
    /\ SubSeq(path, 1, Len(base)) = base

\* Path::strip_prefix: Ok(the rest) when path starts with base, else Err.
StripPrefix(path, base) ==
    IF StartsWith(path, base)
    THEN [ok |-> TRUE, rest |-> SubSeq(path, Len(base) + 1, Len(path))]
    ELSE [ok |-> FALSE, rest |-> <<>>]

\* Path::join of a relative path onto base; an absolute path replaces base.
IsAbsolute(path) == Len(path) > 0 /\ path[1] = "/"
Join(base, path) == IF IsAbsolute(path) THEN path ELSE base \o path

\* The process's current directory.
Cwd == <<"/", "a">>

\* reorient: join onto the current directory; the paths of the model hold no
\* symbolic link and no "." or "..", so canonicalize leaves the joined path.
Reorient(path) == Join(Cwd, path)

-----------------------------------------------------------------------------
(* The file system and git2::Repository::open_ext *)

\* Where repositories can lie on disk: work trees (the repository's gitdir is
\* <work tree>/.git) and bare repositories (the path is the gitdir itself).
WorkdirCandidates == { <<"/", "a">>, <<"/", "a", "b">> }
BareCandidates == { <<"/", "c">> }
Worlds == [workdirs : SUBSET WorkdirCandidates, bare : SUBSET BareCandidates]

\* The values GIT_DIR can have: unset, a gitdir, a work tree, a bare repository.
NoEnv == [set |-> FALSE, path |-> <<>>]
EnvCandidates ==
    { NoEnv } \cup
    { [set |-> TRUE, path |-> p] :
        p \in { <<"/", "a", ".git">>, <<"/", "a">>, <<"/", "c">> } }

\* The paths the input iterator can yield; "b" is relative to Cwd.
InputPaths ==
    { <<"/", "a">>, <<"/", "a", "b">>, <<"/", "a", "b", "c">>,
      <<"/", "a", ".git">>, <<"/", "c">>, <<"b">> }

FROM_ENV == "FROM_ENV"
NO_SEARCH_NO_DOTGIT == "NO_SEARCH|NO_DOTGIT"

OpenFailed == [opened |-> FALSE, hasWorkdir |-> FALSE, workdir |-> <<>>]
OpenedBare == [opened |-> TRUE, hasWorkdir |-> FALSE, workdir |-> <<>>]
Opened(wd) == [opened |-> TRUE, hasWorkdir |-> TRUE, workdir |-> wd]

\* The repository roots at or above an absolute path.
Enclosing(w, abs) == { r \in w.workdirs \cup w.bare : StartsWith(abs, r) }

\* git2::Repository::open_ext.  With NO_SEARCH|NO_DOTGIT the path must be a
\* gitdir itself; with FROM_ENV the search walks rootwards from the path and
\* stops at the nearest repository.
OpenExt(w, path, flags) ==
    LET abs == Reorient(path) IN
    IF flags = NO_SEARCH_NO_DOTGIT
    THEN IF abs \in w.bare THEN OpenedBare
         ELSE IF \E wd \in w.workdirs : abs = wd \o <<".git">>
              THEN Opened(CHOOSE wd \in w.workdirs : abs = wd \o <<".git">>)
              ELSE OpenFailed
    ELSE IF Enclosing(w, abs) = {} THEN OpenFailed
         ELSE LET near == CHOOSE r \in Enclosing(w, abs) :
                              \A r2 \in Enclosing(w, abs) : Len(r2) <= Len(r)
              IN IF near \in w.bare THEN OpenedBare ELSE Opened(near)

-----------------------------------------------------------------------------
(* GitRepo: the fields that construction sets *)

\* discover recording the working directory as the path that was checked.
NewRepoAtWorkdir(workdir, path) ==
    [workdir |-> workdir, original_path |-> workdir, extra_paths |-> <<>>]

\* The fields discover gives a repository (lines 192-199).
NewRepo(workdir, path) ==
    [workdir |-> workdir, original_path |-> path, extra_paths |-> <<>>]

\* has_workdir comparing the wrong field of the repository.
HasWorkdirByOriginalPath(e, path) == e.original_path = path

\* GitRepo::has_workdir
HasWorkdir(e, path) == e.workdir = path

\* has_path testing the working directory instead of the recognised paths.
HasPathByWorkdir(e, path) == StartsWith(path, e.workdir)

\* GitRepo::has_path
HasPath(e, path) ==
    \/ StartsWith(path, e.original_path)
    \/ \E i \in 1..Len(e.extra_paths) : StartsWith(path, e.extra_paths[i])

\* GitRepo::discover: Ok(repo) or Err(path).  A repository without a working
\* directory is an error too.
Discover(w, path, flags) ==
    LET r == OpenExt(w, path, flags) IN
    IF r.opened /\ r.hasWorkdir
    THEN [ok |-> TRUE, repo |-> NewRepo(r.workdir, path), miss |-> <<>>]
    ELSE [ok |-> FALSE, repo |-> NewRepo(<<>>, <<>>), miss |-> path]

-----------------------------------------------------------------------------
(* GitCache::from_iter *)

EmptyCache == [repos |-> <<>>, misses |-> <<>>]

\* The loop without its check of misses.
MissesNeverConsulted(g, path) == FALSE

\* The check of misses hardened to a prefix test.
MissesContainPrefix(g, path) ==
    \E i \in 1..Len(g.misses) : StartsWith(path, g.misses[i])

\* git.misses.contains(&path)
MissesContains(g, path) == \E i \in 1..Len(g.misses) : g.misses[i] = path

\* The skip check looking at original_path only, not at the extra_paths.
AnyRepoHasOriginalPath(g, path) ==
    \E i \in 1..Len(g.repos) : StartsWith(path, g.repos[i].original_path)

\* git.repos.iter().any(|e| e.has_path(&path))
AnyRepoHasPath(g, path) == \E i \in 1..Len(g.repos) : HasPath(g.repos[i], path)

\* git.repos.iter_mut().find(|e| e.has_workdir(&r.workdir)): the index of the
\* first repository with that working directory, 0 when there is none.
FindWorkdir(g, workdir) ==
    IF \E i \in 1..Len(g.repos) : HasWorkdir(g.repos[i], workdir)
    THEN CHOOSE i \in 1..Len(g.repos) :
            /\ HasWorkdir(g.repos[i], workdir)
            /\ \A j \in 1..(i - 1) : ~HasWorkdir(g.repos[j], workdir)
    ELSE 0

\* The GIT_DIR block: the repository opened from GIT_DIR comes first.
FromEnv(w, env) ==
    IF ~env.set THEN EmptyCache
    ELSE LET d == Discover(w, env.path, NO_SEARCH_NO_DOTGIT) IN
         IF d.ok THEN [repos |-> <<d.repo>>, misses |-> <<>>]
         ELSE [repos |-> <<>>, misses |-> <<d.miss>>]

\* Whether the loop body skips the path without a discovery.
Skips(g, path) == MissesContains(g, path) \/ AnyRepoHasPath(g, path)

\* One iteration of the loop over the input paths.
Iterate(w, g, path) ==
    IF MissesContains(g, path) THEN g
    ELSE IF AnyRepoHasPath(g, path) THEN g
    ELSE LET d == Discover(w, path, FROM_ENV) IN
         IF d.ok
         THEN LET i == FindWorkdir(g, d.repo.workdir) IN
              IF i # 0
              THEN [g EXCEPT !.repos[i].extra_paths =
                                 Append(@, d.repo.original_path)]
              ELSE [g EXCEPT !.repos = Append(@, d.repo)]
         ELSE [g EXCEPT !.misses = Append(@, d.miss)]

\* The whole of from_iter on a sequence of input paths.
RECURSIVE IterateAll(_, _, _)
IterateAll(w, g, paths) ==
    IF paths = <<>> THEN g
    ELSE IterateAll(w, Iterate(w, g, Head(paths)), Tail(paths))

FromIter(w, env, paths) == IterateAll(w, FromEnv(w, env), paths)

\* What one call of discover is remembered as.
Attempt(w, path, flags) ==
    LET d == Discover(w, path, flags) IN
    [path |-> path, flags |-> flags, ok |-> d.ok, workdir |-> d.repo.workdir]

\* The number of input paths the iterator yields at most.
MaxInputs == 3

\* The query side of the state while no repository is queried.
NoQueries ==
    /\ statuses = <<>>
    /\ submodules = <<>>
    /\ statusesLock = <<>>
    /\ submodulesLock = <<>>
    /\ repoMutex = <<>>
    /\ pc = <<>>
    /\ call = <<>>
    /\ owner = <<>>
    /\ result = <<>>
    /\ scans = <<>>
    /\ enumerations = <<>>

\* The status side of the state while repo_to_statuses is not looked at alone.
NoScan == [state |-> "none", statuses |-> <<>>]
NoLookup ==
    [done |-> FALSE, path |-> <<>>, prefix_lookup |-> FALSE,
     git |-> [staged |-> "NotModified", unstaged |-> "NotModified"]]
NoMapper ==
    [done |-> FALSE, status |-> {},
     git |-> [staged |-> "NotModified", unstaged |-> "NotModified"]]
NoStatusRun == scan = NoScan /\ lookup = NoLookup /\ mapper = NoMapper

InitBuild ==
    /\ world \in Worlds
    /\ gitDirEnv \in EnvCandidates
    /\ phase = "env"
    /\ consumed = 0
    /\ inputs = <<>>
    /\ git = EmptyCache
    /\ attempts = <<>>
    /\ NoQueries
    /\ NoStatusRun

\* Lines 60-72: the GIT_DIR override.
EnvStep ==
    /\ phase = "env"
    /\ git' = FromEnv(world, gitDirEnv)
    /\ attempts' = IF gitDirEnv.set
                   THEN <<Attempt(world, gitDirEnv.path, NO_SEARCH_NO_DOTGIT)>>
                   ELSE <<>>
    /\ phase' = "loop"
    /\ UNCHANGED <<world, gitDirEnv, consumed, inputs, queryVars, statusVars>>

\* Lines 74-100: the iterator yields a path and the loop body runs on it.
LoopStep ==
    /\ phase = "loop"
    /\ consumed < MaxInputs
    /\ \E path \in InputPaths :
        /\ git' = Iterate(world, git, path)
        /\ attempts' = IF Skips(git, path) THEN attempts
                       ELSE Append(attempts, Attempt(world, path, FROM_ENV))
        /\ inputs' = Append(inputs, [path |-> path,
                                     discovered |-> ~Skips(git, path)])
    /\ consumed' = consumed + 1
    /\ UNCHANGED <<world, gitDirEnv, phase, queryVars, statusVars>>

\* Line 102: the iterator is exhausted and the cache is returned.
Finish ==
    /\ phase = "loop"
    /\ phase' = "built"
    /\ UNCHANGED <<world, gitDirEnv, consumed, inputs, git, attempts, queryVars,
                   statusVars>>

NextBuild == EnvStep \/ LoopStep \/ Finish

SpecBuild == InitBuild /\ [][NextBuild]_vars

-----------------------------------------------------------------------------
(* git2::Status and the two reducers of a combined flag set *)

WorkingTreeFlags ==
    {"WT_NEW", "WT_MODIFIED", "WT_DELETED", "WT_RENAMED", "WT_TYPECHANGE"}
IndexFlags ==
    {"INDEX_NEW", "INDEX_MODIFIED", "INDEX_DELETED", "INDEX_RENAMED",
     "INDEX_TYPECHANGE"}
StatusFlags ==
    WorkingTreeFlags \cup IndexFlags
        \cup {"WT_UNREADABLE", "IGNORED", "CONFLICTED"}

\* git2::Status::IGNORED and git2::Status::empty()
IGNORED == {"IGNORED"}
EmptyStatus == {}

\* working_tree_status with the arms of Ignored and Conflicted exchanged.
WorkingTreeStatusConflictedFirst(status) ==
    IF "WT_NEW" \in status THEN "New"
    ELSE IF "WT_MODIFIED" \in status THEN "Modified"
    ELSE IF "WT_DELETED" \in status THEN "Deleted"
    ELSE IF "WT_RENAMED" \in status THEN "Renamed"
    ELSE IF "WT_TYPECHANGE" \in status THEN "TypeChange"
    ELSE IF "CONFLICTED" \in status THEN "Conflicted"
    ELSE IF "IGNORED" \in status THEN "Ignored"
    ELSE "NotModified"

\* working_tree_status
WorkingTreeStatus(status) ==
    IF "WT_NEW" \in status THEN "New"
    ELSE IF "WT_MODIFIED" \in status THEN "Modified"
    ELSE IF "WT_DELETED" \in status THEN "Deleted"
    ELSE IF "WT_RENAMED" \in status THEN "Renamed"
    ELSE IF "WT_TYPECHANGE" \in status THEN "TypeChange"
    ELSE IF "IGNORED" \in status THEN "Ignored"
    ELSE IF "CONFLICTED" \in status THEN "Conflicted"
    ELSE "NotModified"

\* index_status
IndexStatus(status) ==
    IF "INDEX_NEW" \in status THEN "New"
    ELSE IF "INDEX_MODIFIED" \in status THEN "Modified"
    ELSE IF "INDEX_DELETED" \in status THEN "Deleted"
    ELSE IF "INDEX_RENAMED" \in status THEN "Renamed"
    ELSE IF "INDEX_TYPECHANGE" \in status THEN "TypeChange"
    ELSE "NotModified"

\* f::Git
Git(s) == [staged |-> IndexStatus(s), unstaged |-> WorkingTreeStatus(s)]

\* f::Git::default()
DefaultGit == [staged |-> "NotModified", unstaged |-> "NotModified"]

-----------------------------------------------------------------------------
(* GitStatuses: a sequence of entries [path, status] *)

\* The filter closure of file_status.
FileFilter(p, path) ==
    IF p.status = IGNORED THEN StartsWith(path, p.path)
    ELSE p.path = path

\* dir_status with the filter of file_status.
DirFilterExact(p, path) ==
    IF p.status = IGNORED THEN StartsWith(path, p.path)
    ELSE p.path = path

\* The filter closure of dir_status.
DirFilter(p, path) ==
    IF p.status = IGNORED THEN StartsWith(path, p.path)
    ELSE StartsWith(p.path, path)

\* .filter(..).fold(git2::Status::empty(), |a, b| a | b.1), front to back.
RECURSIVE FoldStatuses(_, _, _, _)
FoldStatuses(entries, path, prefix_lookup, acc) ==
    IF entries = <<>> THEN acc
    ELSE LET p == Head(entries)
             keep == IF prefix_lookup THEN DirFilter(p, path)
                     ELSE FileFilter(p, path)
         IN FoldStatuses(Tail(entries), path, prefix_lookup,
                         IF keep THEN acc \cup p.status ELSE acc)

\* GitStatuses::file_status
FileStatus(entries, file) ==
    Git(FoldStatuses(entries, Reorient(file), FALSE, EmptyStatus))

\* GitStatuses::dir_status
DirStatus(entries, dir) ==
    Git(FoldStatuses(entries, Reorient(dir), TRUE, EmptyStatus))

\* GitStatuses::status
Status(entries, index, prefix_lookup) ==
    IF prefix_lookup THEN DirStatus(entries, index)
    ELSE FileStatus(entries, index)

\* What repo.statuses(None) gives: an error, or entries with paths relative
\* to the working directory.
StatusesErr == [ok |-> FALSE, entries |-> <<>>]
StatusesOk(es) == [ok |-> TRUE, entries |-> es]

\* repo_to_statuses: the entries joined onto the working directory, then the
\* ignored .git entry; nothing at all when the enumeration failed.
RepoToStatuses(listing, workdir) ==
    IF listing.ok
    THEN [n \in 1..Len(listing.entries) |->
             [path |-> Join(workdir, listing.entries[n].path),
              status |-> listing.entries[n].status]]
         \o << [path |-> Join(workdir, <<".git">>), status |-> IGNORED] >>
    ELSE <<>>

-----------------------------------------------------------------------------
(* GitRepo: the lazily filled caches *)

\* Option<GitStatuses>
None == [some |-> FALSE, value |-> <<>>]

\* get_status leaving the cache empty when the scan found nothing to store.
SomeUnlessEmpty(v) == [some |-> v # <<>>, value |-> v]

Some(v) == [some |-> TRUE, value |-> v]

\* Option<Result<Vec<PathBuf>, git2::Error>>
SubNone == [tag |-> "None", paths |-> <<>>]
SubOk(paths) == [tag |-> "Ok", paths |-> paths]
SubErr == [tag |-> "Err", paths |-> <<>>]

\* paths.iter().any(|p| relative_path.starts_with(p))
InAnySubmodule(paths, relative_path) ==
    \E i \in 1..Len(paths) : StartsWith(relative_path, paths[i])

\* has_in_submodule::check_submodule_paths
CheckSubmodulePaths(paths, path, extra_paths, original_path) ==
    \/ /\ StripPrefix(path, original_path).ok
       /\ InAnySubmodule(paths, StripPrefix(path, original_path).rest)
    \/ \E k \in 1..Len(extra_paths) :
          /\ StripPrefix(path, extra_paths[k]).ok
          /\ InAnySubmodule(paths, StripPrefix(path, extra_paths[k]).rest)

\* has_in_submodule answering true when the enumeration failed.
SubmoduleAnswerTrueOnErr(cached, e, path) ==
    IF cached.tag = "Ok"
    THEN CheckSubmodulePaths(cached.paths, path, e.extra_paths, e.original_path)
    ELSE TRUE

\* The answer has_in_submodule reads from a filled cache.
SubmoduleAnswer(cached, e, path) ==
    IF cached.tag = "Ok"
    THEN CheckSubmodulePaths(cached.paths, path, e.extra_paths, e.original_path)
    ELSE FALSE

\* find() giving the last repository that has the path instead of the first.
FindOwnerLast(g, path) ==
    IF \E i \in 1..Len(g.repos) : HasPath(g.repos[i], path)
    THEN CHOOSE i \in 1..Len(g.repos) :
            /\ HasPath(g.repos[i], path)
            /\ \A j \in (i + 1)..Len(g.repos) : ~HasPath(g.repos[j], path)
    ELSE 0

\* self.repos.iter().find(|repo| repo.has_path(index)): the index of the
\* first repository that has the path, 0 when there is none.
FindOwner(g, path) ==
    IF \E i \in 1..Len(g.repos) : HasPath(g.repos[i], path)
    THEN CHOOSE i \in 1..Len(g.repos) :
            /\ HasPath(g.repos[i], path)
            /\ \A j \in 1..(i - 1) : ~HasPath(g.repos[j], path)
    ELSE 0

-----------------------------------------------------------------------------
(* The queries of a built cache, run by concurrent threads *)

\* The number of threads that query the cache.
NumThreads == 2
Threads == 1..NumThreads

\* The runs of a scan that are counted apart.
CountCap == 2

\* The cache that is queried: work tree /a, opened from GIT_DIR and met again
\* through the input path /a/b, which becomes an extra path.
QueryConfigs ==
    { [world |-> [workdirs |-> {<<"/", "a">>}, bare |-> {}],
       env |-> [set |-> TRUE, path |-> <<"/", "a", ".git">>],
       inputs |-> << <<"/", "a", "b">> >>] }

\* The paths that are asked about: one below the extra path /a/b, and one in
\* the work tree but below no recognised path.
QueryPaths == { <<"/", "a", "b", "c", "d">>, <<"/", "a", "c", "d">> }

\* What the status enumeration of a repository can give when it runs.
StatusOutcomes ==
    { StatusesErr,
      StatusesOk(<< [path |-> <<"b", "c", "d">>,
                     status |-> {"WT_MODIFIED"}] >>),
      StatusesOk(<< [path |-> <<"b", "c">>, status |-> IGNORED] >>) }

\* What the submodule enumeration of a repository can give when it runs.
SubmoduleOutcomes ==
    { SubErr, SubOk(<< <<"c">> >>), SubOk(<< <<"b", "c">> >>) }

Unlocked == [readers |-> {}, writer |-> 0]

NoCall == [op |-> "none", path |-> <<>>, prefix_lookup |-> FALSE]
GetCall(path, prefix_lookup) ==
    [op |-> "get", path |-> path, prefix_lookup |-> prefix_lookup]
SubmoduleCall(path) ==
    [op |-> "has_in_submodule", path |-> path, prefix_lookup |-> FALSE]
AnythingCall(path) ==
    [op |-> "has_anything_for", path |-> path, prefix_lookup |-> FALSE]

\* What a query returned: an f::Git or a bool.
NoResult == [git |-> DefaultGit, bool |-> FALSE]
GitResult(g) == [git |-> g, bool |-> FALSE]
BoolResult(b) == [git |-> DefaultGit, bool |-> b]

Init ==
    /\ \E c \in QueryConfigs :
          /\ world = c.world
          /\ gitDirEnv = c.env
          /\ consumed = Len(c.inputs)
          /\ git = FromIter(c.world, c.env, c.inputs)
    /\ phase = "built"
    /\ inputs = <<>>
    /\ attempts = <<>>
    /\ statuses = [r \in 1..Len(git.repos) |-> None]
    /\ submodules = [r \in 1..Len(git.repos) |-> SubNone]
    /\ statusesLock = [r \in 1..Len(git.repos) |-> Unlocked]
    /\ submodulesLock = [r \in 1..Len(git.repos) |-> Unlocked]
    /\ repoMutex = [r \in 1..Len(git.repos) |-> 0]
    /\ scans = [r \in 1..Len(git.repos) |-> 0]
    /\ enumerations = [r \in 1..Len(git.repos) |-> 0]
    /\ pc = [t \in Threads |-> "idle"]
    /\ call = [t \in Threads |-> NoCall]
    /\ owner = [t \in Threads |-> 0]
    /\ result = [t \in Threads |-> NoResult]
    /\ NoStatusRun

Counted(n) == IF n < CountCap THEN n + 1 ELSE n

CanCall(t) == pc[t] \in {"idle", "done"}

\* GitCache::has_anything_for
HasAnythingFor(t, path) ==
    /\ CanCall(t)
    /\ call' = [call EXCEPT ![t] = AnythingCall(path)]
    /\ owner' = [owner EXCEPT ![t] = 0]
    /\ result' = [result EXCEPT ![t] = BoolResult(AnyRepoHasPath(git, path))]
    /\ pc' = [pc EXCEPT ![t] = "done"]
    /\ UNCHANGED <<statusVars, buildVars, cacheVars, lockVars, countVars>>

\* GitCache::get: the default when no repository has the path, else
\* get_status of the first repository that has it.
Get(t, path, prefix_lookup) ==
    /\ CanCall(t)
    /\ call' = [call EXCEPT ![t] = GetCall(path, prefix_lookup)]
    /\ owner' = [owner EXCEPT ![t] = FindOwner(git, path)]
    /\ IF FindOwner(git, path) = 0
       THEN /\ result' = [result EXCEPT ![t] = GitResult(DefaultGit)]
            /\ pc' = [pc EXCEPT ![t] = "done"]
       ELSE /\ result' = [result EXCEPT ![t] = NoResult]
            /\ pc' = [pc EXCEPT ![t] = "gs_read"]
    /\ UNCHANGED <<statusVars, buildVars, cacheVars, lockVars, countVars>>

\* GitCache::has_in_submodule: false when no repository has the path, else
\* has_in_submodule of the first repository that has it.
HasInSubmodule(t, path) ==
    /\ CanCall(t)
    /\ call' = [call EXCEPT ![t] = SubmoduleCall(path)]
    /\ owner' = [owner EXCEPT ![t] = FindOwner(git, path)]
    /\ IF FindOwner(git, path) = 0
       THEN /\ result' = [result EXCEPT ![t] = BoolResult(FALSE)]
            /\ pc' = [pc EXCEPT ![t] = "done"]
       ELSE /\ result' = [result EXCEPT ![t] = NoResult]
            /\ pc' = [pc EXCEPT ![t] = "sm_read"]
    /\ UNCHANGED <<statusVars, buildVars, cacheVars, lockVars, countVars>>

\* The read guard kept across the fall-through to the write lock.
ReadKept(lock, t) == lock

\* RwLock::read: granted while no writer holds the lock.
ReadLocked(lock, t) == [lock EXCEPT !.readers = @ \cup {t}]
ReadUnlocked(lock, t) == [lock EXCEPT !.readers = @ \ {t}]
CanRead(lock) == lock.writer = 0

\* RwLock::write: granted while nobody holds the lock.
CanWrite(lock) == lock.writer = 0 /\ lock.readers = {}

\* A repository handle that is not guarded at all.
MutexAlwaysFree(r) == TRUE

\* Mutex::lock: granted while no thread holds the mutex.
MutexFree(r) == repoMutex[r] = 0

\* The answer get_status reads from a filled cache.
CachedStatus(r, t) ==
    GitResult(Status(statuses[r].value, call[t].path, call[t].prefix_lookup))

\* get_status without its second check.
StatusesNeverRechecked(r) == FALSE

\* The populating call answering with the default instead of the new statuses.
FirstStatusDefault(new_statuses, t) == GitResult(DefaultGit)

\* `if let Some(..) = *statuses` under the read lock and under the write lock.
StatusesCachedOnRead(r) == statuses[r].some
StatusesCachedOnWrite(r) == statuses[r].some

\* Line 160: the answer of the populating call, from the new statuses.
FirstStatus(new_statuses, t) ==
    GitResult(Status(new_statuses, call[t].path, call[t].prefix_lookup))

\* get_status, line 144: self.statuses.read()
GsRead(t) ==
    /\ pc[t] = "gs_read"
    /\ CanRead(statusesLock[owner[t]])
    /\ statusesLock' =
          [statusesLock EXCEPT ![owner[t]] = ReadLocked(@, t)]
    /\ pc' = [pc EXCEPT ![t] = "gs_check"]
    /\ UNCHANGED <<statusVars, buildVars, cacheVars, submodulesLock, repoMutex,
                   call, owner, result, countVars>>

\* get_status, lines 145-149: answer from the cache or fall through; the read
\* guard is dropped either way.
GsCheck(t) ==
    /\ pc[t] = "gs_check"
    /\ statusesLock' =
          [statusesLock EXCEPT ![owner[t]] = ReadUnlocked(@, t)]
    /\ IF StatusesCachedOnRead(owner[t])
       THEN /\ result' = [result EXCEPT ![t] = CachedStatus(owner[t], t)]
            /\ pc' = [pc EXCEPT ![t] = "done"]
       ELSE /\ pc' = [pc EXCEPT ![t] = "gs_write"]
            /\ UNCHANGED result
    /\ UNCHANGED <<statusVars, buildVars, cacheVars, submodulesLock, repoMutex,
                   call, owner, countVars>>

\* get_status, line 151: self.statuses.write()
GsWrite(t) ==
    /\ pc[t] = "gs_write"
    /\ CanWrite(statusesLock[owner[t]])
    /\ statusesLock' = [statusesLock EXCEPT ![owner[t]].writer = t]
    /\ pc' = [pc EXCEPT ![t] = "gs_recheck"]
    /\ UNCHANGED <<statusVars, buildVars, cacheVars, submodulesLock, repoMutex,
                   call, owner, result, countVars>>

\* get_status, lines 152-155: the second check, under the write lock.
GsRecheck(t) ==
    /\ pc[t] = "gs_recheck"
    /\ IF StatusesCachedOnWrite(owner[t])
       THEN /\ result' = [result EXCEPT ![t] = CachedStatus(owner[t], t)]
            /\ statusesLock' = [statusesLock EXCEPT ![owner[t]].writer = 0]
            /\ pc' = [pc EXCEPT ![t] = "done"]
       ELSE /\ pc' = [pc EXCEPT ![t] = "gs_lock"]
            /\ UNCHANGED <<result, statusesLock>>
    /\ UNCHANGED <<statusVars, buildVars, cacheVars, submodulesLock, repoMutex,
                   call, owner, countVars>>

\* get_status, line 158: self.repo.lock()
GsLock(t) ==
    /\ pc[t] = "gs_lock"
    /\ MutexFree(owner[t])
    /\ repoMutex' = [repoMutex EXCEPT ![owner[t]] = t]
    /\ pc' = [pc EXCEPT ![t] = "gs_scan"]
    /\ UNCHANGED <<statusVars, buildVars, cacheVars, statusesLock, submodulesLock,
                   call, owner, result, countVars>>

\* get_status, lines 159-163: scan the repository, answer from the new
\* statuses, store them; both guards are dropped on return.
GsScan(t) ==
    /\ pc[t] = "gs_scan"
    /\ \E listing \in StatusOutcomes :
        LET new_statuses ==
                RepoToStatuses(listing, git.repos[owner[t]].workdir)
        IN /\ result' = [result EXCEPT ![t] = FirstStatus(new_statuses, t)]
           /\ statuses' = [statuses EXCEPT ![owner[t]] = Some(new_statuses)]
    /\ scans' = [scans EXCEPT ![owner[t]] = Counted(@)]
    /\ repoMutex' = [repoMutex EXCEPT ![owner[t]] = 0]
    /\ statusesLock' = [statusesLock EXCEPT ![owner[t]].writer = 0]
    /\ pc' = [pc EXCEPT ![t] = "done"]
    /\ UNCHANGED <<statusVars, buildVars, submodules, submodulesLock, call, owner,
                   enumerations>>

\* has_in_submodule without its second match.
SubmodulesNeverRechecked(r) == FALSE

\* The match on the submodule cache under the read and under the write lock.
SubmodulesCachedOnRead(r) == submodules[r].tag # "None"
SubmodulesCachedOnWrite(r) == submodules[r].tag # "None"

\* has_in_submodule, line 229: self.relative_submodule_paths.read()
SmRead(t) ==
    /\ pc[t] = "sm_read"
    /\ CanRead(submodulesLock[owner[t]])
    /\ submodulesLock' =
          [submodulesLock EXCEPT ![owner[t]] = ReadLocked(@, t)]
    /\ pc' = [pc EXCEPT ![t] = "sm_check"]
    /\ UNCHANGED <<statusVars, buildVars, cacheVars, statusesLock, repoMutex,
                   call, owner, result, countVars>>

\* has_in_submodule, lines 230-237: answer from the cache or fall through.
SmCheck(t) ==
    /\ pc[t] = "sm_check"
    /\ submodulesLock' =
          [submodulesLock EXCEPT ![owner[t]] = ReadUnlocked(@, t)]
    /\ IF SubmodulesCachedOnRead(owner[t])
       THEN /\ result' = [result EXCEPT ![t] = BoolResult(
                  SubmoduleAnswer(submodules[owner[t]],
                                  git.repos[owner[t]], call[t].path))]
            /\ pc' = [pc EXCEPT ![t] = "done"]
       ELSE /\ pc' = [pc EXCEPT ![t] = "sm_write"]
            /\ UNCHANGED result
    /\ UNCHANGED <<statusVars, buildVars, cacheVars, statusesLock, repoMutex,
                   call, owner, countVars>>

\* has_in_submodule, line 239: self.relative_submodule_paths.write()
SmWrite(t) ==
    /\ pc[t] = "sm_write"
    /\ CanWrite(submodulesLock[owner[t]])
    /\ submodulesLock' = [submodulesLock EXCEPT ![owner[t]].writer = t]
    /\ pc' = [pc EXCEPT ![t] = "sm_recheck"]
    /\ UNCHANGED <<statusVars, buildVars, cacheVars, statusesLock, repoMutex,
                   call, owner, result, countVars>>

\* has_in_submodule, lines 240-243: the second match, under the write lock.
SmRecheck(t) ==
    /\ pc[t] = "sm_recheck"
    /\ IF SubmodulesCachedOnWrite(owner[t])
       THEN /\ result' = [result EXCEPT ![t] = BoolResult(
                  SubmoduleAnswer(submodules[owner[t]],
                                  git.repos[owner[t]], call[t].path))]
            /\ submodulesLock' =
                  [submodulesLock EXCEPT ![owner[t]].writer = 0]
            /\ pc' = [pc EXCEPT ![t] = "done"]
       ELSE /\ pc' = [pc EXCEPT ![t] = "sm_lock"]
            /\ UNCHANGED <<result, submodulesLock>>
    /\ UNCHANGED <<statusVars, buildVars, cacheVars, statusesLock, repoMutex,
                   call, owner, countVars>>

\* has_in_submodule, line 244: self.repo.lock()
SmLock(t) ==
    /\ pc[t] = "sm_lock"
    /\ MutexFree(owner[t])
    /\ repoMutex' = [repoMutex EXCEPT ![owner[t]] = t]
    /\ pc' = [pc EXCEPT ![t] = "sm_enumerate"]
    /\ UNCHANGED <<statusVars, buildVars, cacheVars, statusesLock, submodulesLock,
                   call, owner, result, countVars>>

\* has_in_submodule, lines 245-264: enumerate the submodules, store the
\* result, answer from it; both guards are dropped on return.
SmEnumerate(t) ==
    /\ pc[t] = "sm_enumerate"
    /\ \E paths_result \in SubmoduleOutcomes :
        /\ submodules' = [submodules EXCEPT ![owner[t]] = paths_result]
        /\ result' = [result EXCEPT ![t] = BoolResult(
              SubmoduleAnswer(paths_result, git.repos[owner[t]],
                              call[t].path))]
    /\ enumerations' = [enumerations EXCEPT ![owner[t]] = Counted(@)]
    /\ repoMutex' = [repoMutex EXCEPT ![owner[t]] = 0]
    /\ submodulesLock' = [submodulesLock EXCEPT ![owner[t]].writer = 0]
    /\ pc' = [pc EXCEPT ![t] = "done"]
    /\ UNCHANGED <<statusVars, buildVars, statuses, statusesLock, call, owner, scans>>

Next ==
    \E t \in Threads :
        \/ \E path \in QueryPaths : HasAnythingFor(t, path)
        \/ \E path \in QueryPaths, prefix_lookup \in BOOLEAN :
              Get(t, path, prefix_lookup)
        \/ \E path \in QueryPaths : HasInSubmodule(t, path)
        \/ GsRead(t)
        \/ GsCheck(t)
        \/ GsWrite(t)
        \/ GsRecheck(t)
        \/ GsLock(t)
        \/ GsScan(t)
        \/ SmRead(t)
        \/ SmCheck(t)
        \/ SmWrite(t)
        \/ SmRecheck(t)
        \/ SmLock(t)
        \/ SmEnumerate(t)

Spec == Init /\ [][Next]_vars

-----------------------------------------------------------------------------
(* The same queries on a cache of two repositories *)

\* The threads that query the cache of two repositories.
FrameThreads == {1, 2}

\* The cache that is queried: the nested work trees /a/b and /a, met in this
\* order, so that repos is [/a/b, /a] and both recognise the paths below /a/b.
FrameConfigs ==
    { [world |-> [workdirs |-> {<<"/", "a">>, <<"/", "a", "b">>}, bare |-> {}],
       env |-> NoEnv,
       inputs |-> << <<"/", "a", "b">>, <<"/", "a">> >>] }

InitFrame ==
    /\ \E c \in FrameConfigs :
          /\ world = c.world
          /\ gitDirEnv = c.env
          /\ consumed = Len(c.inputs)
          /\ git = FromIter(c.world, c.env, c.inputs)
    /\ phase = "built"
    /\ inputs = <<>>
    /\ attempts = <<>>
    /\ statuses = [r \in 1..Len(git.repos) |-> None]
    /\ submodules = [r \in 1..Len(git.repos) |-> SubNone]
    /\ statusesLock = [r \in 1..Len(git.repos) |-> Unlocked]
    /\ submodulesLock = [r \in 1..Len(git.repos) |-> Unlocked]
    /\ repoMutex = [r \in 1..Len(git.repos) |-> 0]
    /\ scans = [r \in 1..Len(git.repos) |-> 0]
    /\ enumerations = [r \in 1..Len(git.repos) |-> 0]
    /\ pc = [t \in FrameThreads |-> "idle"]
    /\ call = [t \in FrameThreads |-> NoCall]
    /\ owner = [t \in FrameThreads |-> 0]
    /\ result = [t \in FrameThreads |-> NoResult]
    /\ NoStatusRun

NextFrame ==
    \E t \in FrameThreads :
        \/ \E path \in QueryPaths : HasAnythingFor(t, path)
        \/ \E path \in QueryPaths, prefix_lookup \in BOOLEAN :
              Get(t, path, prefix_lookup)
        \/ \E path \in QueryPaths : HasInSubmodule(t, path)
        \/ GsRead(t)
        \/ GsCheck(t)
        \/ GsWrite(t)
        \/ GsRecheck(t)
        \/ GsLock(t)
        \/ GsScan(t)
        \/ SmRead(t)
        \/ SmCheck(t)
        \/ SmWrite(t)
        \/ SmRecheck(t)
        \/ SmLock(t)
        \/ SmEnumerate(t)

SpecFrame == InitFrame /\ [][NextFrame]_vars

\* The steps inside get_status and has_in_submodule that thread t can take.
Progress(t) ==
    \/ GsRead(t) \/ GsCheck(t) \/ GsWrite(t) \/ GsRecheck(t) \/ GsLock(t)
    \/ GsScan(t)
    \/ SmRead(t) \/ SmCheck(t) \/ SmWrite(t) \/ SmRecheck(t) \/ SmLock(t)
    \/ SmEnumerate(t)

\* Fair scheduling: a thread inside a call that can take its next step
\* again and again does take it.  The fairness is strong because a lock a
\* thread waits for is free only from time to time while others use it; the
\* scan and the enumeration are steps that end, the Git calls returning.
Fairness == \A t \in FrameThreads : SF_vars(Progress(t))

\* The threads call get and has_in_submodule, the two queries that lock.
NextLive ==
    \E t \in FrameThreads :
        \/ \E path \in QueryPaths, prefix_lookup \in BOOLEAN :
              Get(t, path, prefix_lookup)
        \/ \E path \in QueryPaths : HasInSubmodule(t, path)
        \/ Progress(t)

SpecLive == InitFrame /\ [][NextLive]_vars /\ Fairness

-----------------------------------------------------------------------------
(* repo_to_statuses and GitStatuses::status taken alone *)

\* The number of entries the status enumeration lists at most.
MaxEntries == 3

\* The entries the enumeration can list: paths relative to the working
\* directory, each at most once, with one of these combined flag sets.
ListedPaths == { <<"d">>, <<"d", "x">>, <<"d", "x", "z">>, <<"d", "y">> }
ListedStatuses ==
    { IGNORED, {"WT_NEW"}, {"WT_MODIFIED"}, {"IGNORED", "INDEX_DELETED"} }

\* The paths that are looked up; "d" is relative to Cwd.
LookupPaths ==
    { <<"/", "a">>, <<"/", "a", "d">>, <<"/", "a", "d", "x">>,
      <<"/", "a", "d", "x", "z">>, <<"/", "a", "d", "y">>, <<"d">> }

InitStatus ==
    /\ \E c \in QueryConfigs :
          /\ world = c.world
          /\ gitDirEnv = c.env
          /\ consumed = Len(c.inputs)
          /\ git = FromIter(c.world, c.env, c.inputs)
    /\ phase = "built"
    /\ inputs = <<>>
    /\ attempts = <<>>
    /\ NoQueries
    /\ scan = [state |-> "iterating", statuses |-> <<>>]
    /\ lookup = NoLookup
    /\ mapper = NoMapper

\* repo_to_statuses, lines 278-287: one entry of the enumeration is pushed,
\* its path joined onto the working directory.
PushEntry ==
    /\ scan.state = "iterating"
    /\ Len(scan.statuses) < MaxEntries
    /\ \E path \in ListedPaths, status \in ListedStatuses :
        LET elem == [path |-> Join(git.repos[1].workdir, path),
                     status |-> status]
        IN /\ \A n \in 1..Len(scan.statuses) :
                  scan.statuses[n].path # elem.path
           /\ scan' = [scan EXCEPT !.statuses = Append(@, elem)]
    /\ UNCHANGED <<buildVars, queryVars, lookup, mapper>>

\* repo_to_statuses, line 290: after the last entry, .git is pushed as
\* ignored.
PushDotGit ==
    /\ scan.state = "iterating"
    /\ scan' = [state |-> "built",
                statuses |-> Append(scan.statuses,
                    [path |-> Join(git.repos[1].workdir, <<".git">>),
                     status |-> IGNORED])]
    /\ UNCHANGED <<buildVars, queryVars, lookup, mapper>>

\* repo_to_statuses, lines 292-294: the enumeration failed; the Vec stays
\* empty.
EnumerationFails ==
    /\ scan.state = "iterating"
    /\ scan.statuses = <<>>
    /\ scan' = [state |-> "built", statuses |-> <<>>]
    /\ UNCHANGED <<buildVars, queryVars, lookup, mapper>>

\* GitStatuses::status on the finished statuses.
Lookup ==
    /\ scan.state = "built"
    /\ \E path \in LookupPaths, prefix_lookup \in BOOLEAN :
        lookup' = [done |-> TRUE, path |-> path,
                   prefix_lookup |-> prefix_lookup,
                   git |-> Status(scan.statuses, path, prefix_lookup)]
    /\ UNCHANGED <<buildVars, queryVars, scan, mapper>>

NextStatus == PushEntry \/ PushDotGit \/ EnumerationFails \/ Lookup

SpecStatus == InitStatus /\ [][NextStatus]_vars

-----------------------------------------------------------------------------
(* working_tree_status and index_status taken alone *)

\* A combined flag set, any of them, before the two reducers are applied.
InitMapper ==
    /\ world = [workdirs |-> {}, bare |-> {}]
    /\ gitDirEnv = NoEnv
    /\ phase = "built"
    /\ consumed = 0
    /\ inputs = <<>>
    /\ git = EmptyCache
    /\ attempts = <<>>
    /\ NoQueries
    /\ scan = NoScan
    /\ lookup = NoLookup
    /\ \E s \in SUBSET StatusFlags :
          mapper = [done |-> FALSE, status |-> s, git |-> DefaultGit]

\* Lines 343-345: index_status and working_tree_status of the flag set.
MapStatus ==
    /\ ~mapper.done
    /\ mapper' = [done |-> TRUE, status |-> mapper.status,
                  git |-> Git(mapper.status)]
    /\ UNCHANGED <<buildVars, queryVars, scan, lookup>>

NextMapper == MapStatus

SpecMapper == InitMapper /\ [][NextMapper]_vars

-----------------------------------------------------------------------------
(* Properties of construction, checked under SpecBuild *)

RepoIndices == 1..Len(git.repos)

\* The paths a repository recognises: original_path and the extra_paths.
RecognisedPaths(e) ==
    {e.original_path} \cup {e.extra_paths[k] : k \in 1..Len(e.extra_paths)}

\* The successful discoveries so far.
Successes == {n \in 1..Len(attempts) : attempts[n].ok}

\* C2: no two repositories of the cache have the same working directory, and
\* when two distinct paths were both discovered with the same working
\* directory, exactly one repository has that working directory and both
\* paths satisfy has_path on it.
C2_DedupByWorkdir ==
    /\ \A i, j \in RepoIndices :
          i # j => git.repos[i].workdir # git.repos[j].workdir
    /\ \A m, n \in Successes :
          (attempts[m].path # attempts[n].path
              /\ attempts[m].workdir = attempts[n].workdir)
          => /\ Cardinality({i \in RepoIndices :
                        git.repos[i].workdir = attempts[m].workdir}) = 1
             /\ \A i \in RepoIndices :
                   git.repos[i].workdir = attempts[m].workdir
                   => /\ HasPath(git.repos[i], attempts[m].path)
                      /\ HasPath(git.repos[i], attempts[n].path)

\* Construction has ended after two distinct paths were discovered with the
\* same working directory, one of them through GIT_DIR.
C2_Witness ==
    /\ phase = "built"
    /\ gitDirEnv.set
    /\ \E m, n \in Successes :
          /\ attempts[m].path # attempts[n].path
          /\ attempts[m].workdir = attempts[n].workdir
          /\ attempts[m].flags # attempts[n].flags

\* C9: no path is both an element of misses and the original_path or an
\* extra_paths entry of a repository.
C9_MissesDisjointFromRepos ==
    \A i \in 1..Len(git.misses) : \A r \in RepoIndices :
        git.misses[i] \notin RecognisedPaths(git.repos[r])

\* Construction has ended with a miss recorded for GIT_DIR, the same path
\* met again as an input, and a repository found for another input.
C9_Witness ==
    /\ phase = "built"
    /\ gitDirEnv.set
    /\ consumed >= 2
    /\ MissesContains(git, gitDirEnv.path)
    /\ OpenExt(world, gitDirEnv.path, FROM_ENV).hasWorkdir
    /\ \E r \in RepoIndices : Len(git.repos[r].extra_paths) > 0

\* The paths a query can ask about.
OwnerProbes == InputPaths \cup { <<"/", "a", "b", "c", "d">>, <<"/", "d">> }

\* C10: for every query path at most one repository of the cache satisfies
\* has_path.
C10_UniqueOwner ==
    \A p \in OwnerProbes :
        Cardinality({i \in RepoIndices : HasPath(git.repos[i], p)}) <= 1

-----------------------------------------------------------------------------
(* Properties of the concurrent queries, checked under Spec *)

Repos == 1..Len(git.repos)

\* A get that was delegated to repository r has returned to thread t.
GetReturned(t, r) == pc[t] = "done" /\ call[t].op = "get" /\ owner[t] = r

\* C1: repo_to_statuses runs at most once for a repository, and has run
\* exactly once as soon as a get delegated to the repository has returned.
C1_ScanExactlyOnce ==
    \A r \in Repos :
        /\ scans[r] <= 1
        /\ (\E t \in Threads : GetReturned(t, r))
              => scans[r] = 1 /\ statuses[r].some

\* Two threads have both returned from a get on the same repository.
C1_Witness ==
    \E r \in Repos : \E t1, t2 \in Threads :
        /\ t1 # t2
        /\ GetReturned(t1, r)
        /\ GetReturned(t2, r)
        /\ scans[r] = 1

\* The path is below no original_path and no extra_paths entry.
Unrecognised(path) ==
    \A r \in Repos :
        /\ ~StartsWith(path, git.repos[r].original_path)
        /\ \A k \in 1..Len(git.repos[r].extra_paths) :
              ~StartsWith(path, git.repos[r].extra_paths[k])

\* Thread t starts a query in this step.
Calls(t) ==
    /\ pc[t] \in {"idle", "done"}
    /\ <<pc[t], call[t], owner[t], result[t]>>
          # <<pc'[t], call'[t], owner'[t], result'[t]>>

\* A query about a path below no recognised path returns at once, get with
\* the default status and the two others with false, and it changes no
\* cache, takes no lock and starts no scan and no submodule enumeration.
C3_UnrecognisedPathStep ==
    \A t \in Threads :
        (Calls(t) /\ Unrecognised(call'[t].path))
        => /\ pc'[t] = "done"
           /\ owner'[t] = 0
           /\ result'[t] = NoResult
           /\ UNCHANGED <<cacheVars, lockVars, countVars>>

\* C3, over every step: queries about unrecognised paths answer with the
\* default or false and touch no repository.
C3_UnrecognisedPath == [][C3_UnrecognisedPathStep]_vars

\* All three queries have returned for a path that lies in the work tree of
\* a repository whose statuses are cached, but below no recognised path.
C3_Witness ==
    \E t1, t2 \in Threads :
        /\ t1 # t2
        /\ pc[t1] = "done" /\ call[t1].op = "get" /\ call[t1].prefix_lookup
        /\ pc[t2] = "done" /\ call[t2].op = "has_in_submodule"
        /\ call[t1].path = call[t2].path
        /\ Unrecognised(call[t1].path)
        /\ \E r \in Repos :
              /\ StartsWith(call[t1].path, git.repos[r].workdir)
              /\ statuses[r].some
              /\ submodules[r].tag = "Ok"

\* C4: two calls of get with the same path and the same prefix_lookup return
\* the same result.
C4_GetIdempotent ==
    \A t1, t2 \in Threads :
        (/\ pc[t1] = "done" /\ call[t1].op = "get"
         /\ pc[t2] = "done" /\ call[t2] = call[t1])
        => result[t1] = result[t2]

\* Two threads have returned from the same get on a repository, with a
\* status that is not the default.
C4_Witness ==
    \E t1, t2 \in Threads :
        /\ t1 # t2
        /\ pc[t1] = "done" /\ call[t1].op = "get" /\ owner[t1] # 0
        /\ pc[t2] = "done" /\ call[t2] = call[t1]
        /\ result[t1].git.unstaged = "Modified"

\* The path lies strictly inside the submodule registered at the
\* root-relative path sub of the repository with this working directory.
StrictlyInside(path, workdir, sub) ==
    StartsWith(path, workdir \o sub) /\ path # workdir \o sub
InsideOrAt(path, workdir, sub) == StartsWith(path, workdir \o sub)

\* C5: once the submodule list is known, has_in_submodule of a recognised
\* path is true when the path lies strictly inside a submodule and false
\* when it lies inside no submodule.
C5_SubmoduleContainment ==
    \A t \in Threads :
        (/\ pc[t] = "done" /\ call[t].op = "has_in_submodule"
         /\ owner[t] # 0
         /\ submodules[owner[t]].tag = "Ok")
        => LET e == git.repos[owner[t]]
               subs == submodules[owner[t]].paths
           IN /\ (\E i \in 1..Len(subs) :
                     StrictlyInside(call[t].path, e.workdir, subs[i]))
                 => result[t].bool
              /\ (\A i \in 1..Len(subs) :
                     ~InsideOrAt(call[t].path, e.workdir, subs[i]))
                 => ~result[t].bool

\* One step keeps every working directory and every filled cache slot.
C8_WriteOnceStep ==
    /\ Len(git'.repos) = Len(git.repos)
    /\ \A r \in Repos :
        /\ git'.repos[r].workdir = git.repos[r].workdir
        /\ statuses[r].some => statuses'[r] = statuses[r]
        /\ submodules[r].tag # "None" => submodules'[r] = submodules[r]

\* C8: the working directory of a repository never changes, and each of
\* the two caches, once filled, is never emptied and never given another
\* value, under every interleaving of get and has_in_submodule.
C8_WriteOnce == [][C8_WriteOnceStep]_vars

\* Both caches of a repository are filled and two threads have returned from
\* a get and a has_in_submodule on it.
C8_Witness ==
    \E r \in Repos : \E t1, t2 \in Threads :
        /\ statuses[r].some
        /\ submodules[r].tag # "None"
        /\ scans[r] = 1 /\ enumerations[r] = 1
        /\ GetReturned(t1, r)
        /\ pc[t2] = "done" /\ call[t2].op = "has_in_submodule"
        /\ owner[t2] = r

-----------------------------------------------------------------------------
(* Properties of the status lookups, checked under SpecStatus *)

Entries == {scan.statuses[n] : n \in 1..Len(scan.statuses)}

\* The path looked up, as file_status and dir_status compare it.
LookedUp == Reorient(lookup.path)

\* Entries whose status is IGNORED, and entries that carry the IGNORED flag.
IgnoredEntries == {e \in Entries : e.status = IGNORED}
FlaggedIgnored == {e \in Entries : "IGNORED" \in e.status}

Parent(path) == SubSeq(path, 1, Len(path) - 1)

\* C6: when a directory D has an IGNORED entry, file_status of a child of D
\* without an entry of its own is Ignored on the unstaged axis, and
\* dir_status of the parent of D is Ignored on the unstaged axis only if the
\* parent is at or below the path of an entry flagged IGNORED and no
\* working-tree flag is aggregated.
C6_IgnoredAsymmetry ==
    lookup.done =>
      \A D \in IgnoredEntries :
        /\ (/\ ~lookup.prefix_lookup
            /\ Parent(LookedUp) = D.path
            /\ \A e \in Entries : e.path # LookedUp)
           => lookup.git.unstaged = "Ignored"
        /\ (/\ lookup.prefix_lookup
            /\ LookedUp = Parent(D.path)
            /\ lookup.git.unstaged = "Ignored")
           => /\ \E e \in FlaggedIgnored : StartsWith(LookedUp, e.path)
              /\ \A e \in Entries :
                    (e.status # IGNORED /\ StartsWith(e.path, LookedUp))
                    => e.status \cap WorkingTreeFlags = {}

\* The union of a set of flag sets.
UnionOf(S) == UNION S

\* What dir_status folds: the flags of the entries at or below the
\* directory whose status is not IGNORED, and IGNORED itself when an entry
\* with status IGNORED lies at or above the directory.
BelowFlags(dir) ==
    UnionOf({e.status : e \in {x \in Entries :
                x.status # IGNORED /\ StartsWith(x.path, dir)}})
AboveIgnored(dir) ==
    IF \E e \in IgnoredEntries : StartsWith(dir, e.path) THEN IGNORED ELSE {}

Swapped(seq, i, j) == [seq EXCEPT ![i] = seq[j], ![j] = seq[i]]

-----------------------------------------------------------------------------
(* Properties of the queries on two repositories, checked under SpecFrame *)

\* The repository a query about the path is answered by: the first one in
\* repos that recognises the path, 0 when none does.
OwningRepository(path) ==
    LET having == {i \in Repos : HasPath(git.repos[i], path)}
    IN IF having = {} THEN 0
       ELSE CHOOSE i \in having : \A j \in having : i <= j

\* Thread t takes a step.
Moves(t) ==
    <<pc[t], call[t], owner[t], result[t]>>
        # <<pc'[t], call'[t], owner'[t], result'[t]>>

\* The query the step of thread t belongs to.
QueryOf(t) == IF pc[t] \in {"idle", "done"} THEN call'[t] ELSE call[t]

\* One step of a query leaves the cache as construction built it, and fills
\* at most the one slot its kind of query may fill, in the owning repository.
C11_FrameStep ==
    /\ git' = git
    /\ (\A t \in FrameThreads : ~Moves(t)) => UNCHANGED cacheVars
    /\ \A t \in FrameThreads :
          Moves(t) =>
            LET q == QueryOf(t)
                o == OwningRepository(q.path)
            IN /\ q.op = "has_anything_for" => UNCHANGED cacheVars
               /\ q.op = "get" =>
                     /\ submodules' = submodules
                     /\ \A r \in Repos : r # o => statuses'[r] = statuses[r]
               /\ q.op = "has_in_submodule" =>
                     /\ statuses' = statuses
                     /\ \A r \in Repos : r # o => submodules'[r] = submodules[r]

\* C11: has_anything_for, get and has_in_submodule leave repos, misses and
\* every repository's workdir, original_path and extra_paths unchanged;
\* has_anything_for fills no cache, get fills at most the status cache of the
\* owning repository, has_in_submodule at most its submodule cache, and the
\* caches of the other repositories are not touched.
C11_QueryFrame == [][C11_FrameStep]_vars

\* A get and a has_in_submodule about a path that both repositories recognise
\* have returned, and has_anything_for ran before them; the caches of the
\* first repository are filled and those of the second are still empty.
C11_Witness ==
    \E t1, t2 \in FrameThreads :
        /\ t1 # t2
        /\ pc[t1] = "done" /\ call[t1].op = "get"
        /\ pc[t2] = "done" /\ call[t2].op = "has_in_submodule"
        /\ call[t1].path = call[t2].path
        /\ Cardinality({i \in Repos : HasPath(git.repos[i], call[t1].path)}) = 2
        /\ owner[t1] = 1 /\ owner[t2] = 1
        /\ statuses[1].some /\ submodules[1].tag # "None"
        /\ ~statuses[2].some /\ submodules[2].tag = "None"

-----------------------------------------------------------------------------
(* Properties of the discoveries of construction, checked under SpecBuild *)

\* The paths whose discovery gave this working directory, in the order of
\* the discoveries: all of them, and those that the input iterator yielded.
ResolvedTo(workdir) ==
    SelectSeq(attempts, LAMBDA a : a.ok /\ a.workdir = workdir)
InputsResolvedTo(workdir) ==
    SelectSeq(attempts,
              LAMBDA a : a.ok /\ a.workdir = workdir /\ a.flags = FROM_ENV)

\* The repository has the first of the paths as original_path and the rest
\* of them, in their order, as extra_paths.
BuiltFrom(e, found) ==
    /\ Len(found) >= 1
    /\ e.original_path = found[1].path
    /\ e.extra_paths = [k \in 1..(Len(found) - 1) |-> found[k + 1].path]

\* C12, with the path of GIT_DIR counted as the first path discovered: the
\* repository of a working directory has as original_path the first path
\* whose discovery gave that working directory, and as extra_paths the later
\* paths whose discovery was attempted and gave it, in input order; every
\* working directory that a discovery gave has exactly one repository.
C12_ConstructionResult ==
    /\ \A r \in RepoIndices :
          BuiltFrom(git.repos[r], ResolvedTo(git.repos[r].workdir))
    /\ \A n \in Successes :
          Cardinality({r \in RepoIndices :
                          git.repos[r].workdir = attempts[n].workdir}) = 1

\* C12 as stated, counting the input paths only: original_path is the first
\* input path whose discovery gave the working directory and extra_paths
\* are the later such input paths.
C12_InputPathsOnly ==
    \A r \in RepoIndices :
        BuiltFrom(git.repos[r], InputsResolvedTo(git.repos[r].workdir))

\* Construction has ended on GIT_DIR and two input paths that are not below
\* one another and all gave the same working directory: one repository,
\* with the path of GIT_DIR as original_path and two extra paths.
C12_Witness ==
    /\ phase = "built"
    /\ gitDirEnv.set
    /\ Len(git.repos) = 1
    /\ git.repos[1].original_path = gitDirEnv.path
    /\ Len(git.repos[1].extra_paths) = 2
    /\ Len(InputsResolvedTo(git.repos[1].workdir)) = 2

\* The discoveries made for input paths, and those of them that succeeded.
InputAttempts == {n \in 1..Len(attempts) : attempts[n].flags = FROM_ENV}
InputSuccesses == InputAttempts \cap Successes

IsMiss(path) == \E i \in 1..Len(git.misses) : git.misses[i] = path
BelowMiss(path) ==
    \E i \in 1..Len(git.misses) :
        StartsWith(path, git.misses[i]) /\ path # git.misses[i]

\* The path is at or below a path that a tracked repository recognises.
Covered(path) ==
    \E r \in RepoIndices : \E q \in RecognisedPaths(git.repos[r]) :
        StartsWith(path, q)

\* The step in which the loop processes one input path: the path is skipped
\* exactly when it is a miss or covered; a skip changes nothing, and a path
\* that is not skipped is discovered once and lands in a repository or in
\* misses.
C14_SkipStep ==
    Len(inputs') = Len(inputs) + 1 =>
        LET path == inputs'[Len(inputs')].path
            skipped == ~inputs'[Len(inputs')].discovered
        IN /\ skipped <=> (IsMiss(path) \/ Covered(path))
           /\ (BelowMiss(path) /\ ~IsMiss(path) /\ ~Covered(path)) => ~skipped
           /\ skipped => (git' = git /\ attempts' = attempts)
           /\ ~skipped =>
                 /\ attempts' = Append(attempts, Attempt(world, path, FROM_ENV))
                 /\ git' # git

\* No two discoveries were attempted for the same path.
DiscoveredOnce ==
    \A m, n \in 1..Len(attempts) :
        m # n => attempts[m].path # attempts[n].path

\* C14: an input path is skipped without a discovery if and only if, when
\* it is processed, it is equal to an element of misses or covered by
\* has_path of a tracked repository; so discovery is attempted at most once
\* per distinct path, and a path strictly below a missed path, itself no
\* miss and not covered, is discovered.
C14_SkipRule == []DiscoveredOnce /\ [][C14_SkipStep]_vars

\* A path was missed, and a later input path strictly below it was
\* discovered and missed as well.
C14_Witness ==
    \E j, k \in 1..Len(inputs) :
        /\ j < k
        /\ inputs[j].discovered /\ IsMiss(inputs[j].path)
        /\ inputs[k].discovered /\ IsMiss(inputs[k].path)
        /\ BelowMiss(inputs[k].path)
        /\ StartsWith(inputs[k].path, inputs[j].path)

-----------------------------------------------------------------------------
(* Properties of failed scans, checked under Spec *)

\* The status scan of the repository failed: its cache holds the empty
\* index, which only a failed enumeration leaves (a successful one lists at
\* least .git).
ScanFailed(r) == statuses[r].some /\ statuses[r].value = <<>>

\* C15: when the status enumeration of a repository failed, the status
\* cache is populated all the same, with an empty index; the scan is not run
\* again; and every get routed to the repository has returned
\* (NotModified, NotModified), whatever the path and the lookup mode.
C15_ScanFailureRemembered ==
    \A r \in Repos :
        /\ scans[r] >= 1 => statuses[r].some
        /\ scans[r] <= 1
        /\ ScanFailed(r) =>
              /\ scans[r] = 1
              /\ \A t \in Threads :
                    GetReturned(t, r) => result[t] = GitResult(DefaultGit)
              /\ \A path \in QueryPaths, prefix_lookup \in BOOLEAN :
                    Status(statuses[r].value, path, prefix_lookup) = DefaultGit

\* The scan failed, and two threads have returned from gets on the
\* repository that differ in the lookup mode; one of them ran the scan, the
\* other came after it.
C15_Witness ==
    \E r \in Repos : \E t1, t2 \in Threads :
        /\ ScanFailed(r)
        /\ t1 # t2
        /\ GetReturned(t1, r) /\ GetReturned(t2, r)
        /\ call[t1].prefix_lookup /\ ~call[t2].prefix_lookup
        /\ scans[r] = 1

\* A has_in_submodule that was delegated to repository r has returned to
\* thread t.
SubmoduleReturned(t, r) ==
    pc[t] = "done" /\ call[t].op = "has_in_submodule" /\ owner[t] = r

\* The path can be stripped of neither original_path nor any extra_paths
\* entry of the repository.
Unstrippable(path, e) ==
    /\ ~StripPrefix(path, e.original_path).ok
    /\ \A k \in 1..Len(e.extra_paths) : ~StripPrefix(path, e.extra_paths[k]).ok

\* C16: the submodule enumeration of a repository runs at most once under
\* every interleaving of has_in_submodule calls; when it failed the error is
\* in the cache, the enumeration is not run again, and every
\* has_in_submodule on the repository, the failing one included, has
\* returned false; and has_in_submodule is false for a path that can be
\* stripped of neither original_path nor any extra_paths entry.
C16_EnumerationFailureRemembered ==
    /\ \A r \in Repos :
          /\ enumerations[r] <= 1
          /\ enumerations[r] >= 1 => submodules[r].tag # "None"
          /\ submodules[r].tag = "Err" =>
                /\ enumerations[r] = 1
                /\ \A t \in Threads : SubmoduleReturned(t, r) => ~result[t].bool
          /\ \A path \in QueryPaths :
                (submodules[r].tag = "Ok" /\ Unstrippable(path, git.repos[r]))
                => ~CheckSubmodulePaths(submodules[r].paths, path,
                                        git.repos[r].extra_paths,
                                        git.repos[r].original_path)
    /\ \A t \in Threads :
          (/\ pc[t] = "done" /\ call[t].op = "has_in_submodule"
           /\ \A r \in Repos : Unstrippable(call[t].path, git.repos[r]))
          => ~result[t].bool

\* The enumeration failed, and two threads have returned from
\* has_in_submodule on the repository: one ran the enumeration, the other
\* came after it.
C16_Witness ==
    \E r \in Repos : \E t1, t2 \in Threads :
        /\ submodules[r].tag = "Err"
        /\ t1 # t2
        /\ SubmoduleReturned(t1, r) /\ SubmoduleReturned(t2, r)
        /\ enumerations[r] = 1

-----------------------------------------------------------------------------
(* Properties of the locks, checked under Spec *)

\* Thread t is between self.repo.lock() and its return in repository r.
HoldsMutex(t, r) == pc[t] \in {"gs_scan", "sm_enumerate"} /\ owner[t] = r

\* At most one thread holds the handle mutex of a repository, and it holds
\* the write lock of the cache it is about to fill, which it found empty.
MutexDiscipline ==
    \A r \in Repos :
        /\ Cardinality({t \in Threads : HoldsMutex(t, r)}) <= 1
        /\ repoMutex[r] # 0 => HoldsMutex(repoMutex[r], r)
        /\ \A t \in Threads :
              HoldsMutex(t, r) =>
                /\ repoMutex[r] = t
                /\ \/ /\ pc[t] = "gs_scan"
                      /\ statusesLock[r].writer = t
                      /\ ~statuses[r].some
                   \/ /\ pc[t] = "sm_enumerate"
                      /\ submodulesLock[r].writer = t
                      /\ submodules[r].tag = "None"

\* On a populated cache the write lock is held only by a call that found
\* the cache empty under the read lock and is now at its second check, and
\* no call on that cache waits for or holds the handle mutex.
PopulatedDiscipline ==
    \A r \in Repos : \A t \in Threads :
        /\ (statuses[r].some /\ owner[t] = r)
              => /\ pc[t] \notin {"gs_lock", "gs_scan"}
                 /\ statusesLock[r].writer = t => pc[t] = "gs_recheck"
        /\ (submodules[r].tag # "None" /\ owner[t] = r)
              => /\ pc[t] \notin {"sm_lock", "sm_enumerate"}
                 /\ submodulesLock[r].writer = t => pc[t] = "sm_recheck"

\* A call that takes the read lock of a populated cache returns from under
\* it: it goes on to no write lock and to no handle mutex.
ReadOnlyStep ==
    \A t \in Threads :
        /\ (pc[t] \in {"gs_read", "gs_check"} /\ statuses[owner[t]].some)
              => /\ pc'[t] \in {"gs_read", "gs_check", "done"}
                 /\ statusesLock'[owner[t]].writer # t
                 /\ repoMutex'[owner[t]] # t
        /\ (pc[t] \in {"sm_read", "sm_check"}
                /\ submodules[owner[t]].tag # "None")
              => /\ pc'[t] \in {"sm_read", "sm_check", "done"}
                 /\ submodulesLock'[owner[t]].writer # t
                 /\ repoMutex'[owner[t]] # t

\* C17, for the calls that begin on a populated cache: at most one thread
\* holds the handle mutex of a repository, and only while it holds the write
\* lock of one of the two caches, found empty, so that a status scan and a
\* submodule enumeration of a repository never overlap; a call that begins
\* once a cache is populated takes only the read lock of that cache; a call
\* that began before may still take the write lock for its second check,
\* but never the handle mutex.
C17_LockDiscipline ==
    /\ [](MutexDiscipline /\ PopulatedDiscipline)
    /\ [][ReadOnlyStep]_vars

\* C17 as stated: once a cache is populated nobody takes its write lock.
C17_NoWriteLockOncePopulated ==
    \A r \in Repos :
        /\ statuses[r].some => statusesLock[r].writer = 0
        /\ submodules[r].tag # "None" => submodulesLock[r].writer = 0

\* One thread scans the statuses under the handle mutex while the other,
\* holding the write lock of the empty submodule cache, waits for the mutex.
C17_Witness ==
    \E r \in Repos : \E t1, t2 \in Threads :
        /\ pc[t1] = "gs_scan" /\ owner[t1] = r
        /\ pc[t2] = "sm_lock" /\ owner[t2] = r
        /\ repoMutex[r] = t1
        /\ statusesLock[r].writer = t1
        /\ submodulesLock[r].writer = t2

-----------------------------------------------------------------------------
(* Progress of the queries on two repositories, checked under SpecLive *)

\* Thread t is inside get_status or has_in_submodule.
Busy(t) == pc[t] \notin {"idle", "done"}

\* While a thread is inside a call, some thread inside a call can step.
NoDeadlock ==
    (\E t \in FrameThreads : Busy(t))
    => \E t \in FrameThreads : Busy(t) /\ ENABLED Progress(t)

\* A thread that waits for or holds the write lock of a cache holds no read
\* lock of that cache.
NoUpgrade ==
    \A t \in FrameThreads :
        /\ pc[t] \in {"gs_write", "gs_recheck", "gs_lock", "gs_scan"}
              => t \notin statusesLock[owner[t]].readers
        /\ pc[t] \in {"sm_write", "sm_recheck", "sm_lock", "sm_enumerate"}
              => t \notin submodulesLock[owner[t]].readers

\* A thread that holds a handle mutex acquires no cache lock.
NoLockUnderMutexStep ==
    \A t \in FrameThreads : \A r \in Repos :
        repoMutex[r] = t =>
            \A r2 \in Repos :
                /\ statusesLock'[r2].writer = t => statusesLock[r2].writer = t
                /\ submodulesLock'[r2].writer = t
                      => submodulesLock[r2].writer = t
                /\ t \in statusesLock'[r2].readers
                      => t \in statusesLock[r2].readers
                /\ t \in submodulesLock'[r2].readers
                      => t \in submodulesLock[r2].readers

\* C18: with threads calling get and has_in_submodule on the same
\* repository and on different ones, in every interleaving, no state with a
\* thread inside a call is a deadlock; no thread waits for a write lock
\* while it holds the read lock of the same cache; no thread acquires a
\* cache lock while it holds the handle mutex; and under fair scheduling
\* every call returns.
C18_DeadlockFreedom ==
    /\ [](NoDeadlock /\ NoUpgrade)
    /\ [][NoLockUnderMutexStep]_vars
    /\ \A t \in FrameThreads : Busy(t) ~> (pc[t] = "done")

\* One thread scans the first repository under its write lock and its
\* handle mutex while the other waits for the same write lock.
C18_Witness ==
    \E t1, t2 \in FrameThreads :
        /\ pc[t1] = "gs_scan" /\ pc[t2] = "gs_write"
        /\ owner[t1] = owner[t2]
        /\ statusesLock[owner[t1]].writer = t1
        /\ ~ENABLED Progress(t2)

-----------------------------------------------------------------------------
(* Properties of the two reducers, checked under SpecMapper *)

\* The waterfalls: flag and result, in the order they are tried.
WorkingTreeOrder ==
    << <<"WT_NEW", "New">>, <<"WT_MODIFIED", "Modified">>,
       <<"WT_DELETED", "Deleted">>, <<"WT_RENAMED", "Renamed">>,
       <<"WT_TYPECHANGE", "TypeChange">>, <<"IGNORED", "Ignored">>,
       <<"CONFLICTED", "Conflicted">> >>
IndexOrder ==
    << <<"INDEX_NEW", "New">>, <<"INDEX_MODIFIED", "Modified">>,
       <<"INDEX_DELETED", "Deleted">>, <<"INDEX_RENAMED", "Renamed">>,
       <<"INDEX_TYPECHANGE", "TypeChange">> >>

\* The result of the first pair whose flag is in the set, else NotModified.
FirstOf(order, flags) ==
    LET hits == {i \in 1..Len(order) : order[i][1] \in flags}
    IN IF hits = {} THEN "NotModified"
       ELSE order[CHOOSE i \in hits : \A j \in hits : i <= j][2]

\* The flags the unstaged axis looks at.
UnstagedFlags == WorkingTreeFlags \cup {"IGNORED", "CONFLICTED"}

\* C19: for every combined flag set, working_tree_status is the first of
\* New, Modified, Deleted, Renamed, TypeChange, Ignored, Conflicted whose
\* flag is in the set, else NotModified; index_status is the first of New,
\* Modified, Deleted, Renamed, TypeChange whose INDEX_ flag is in the set,
\* else NotModified; the staged axis is never Ignored or Conflicted; and
\* neither axis changes when the flags of the other axis do.
C19_Waterfalls ==
    mapper.done =>
        /\ mapper.git.unstaged = FirstOf(WorkingTreeOrder, mapper.status)
        /\ mapper.git.staged = FirstOf(IndexOrder, mapper.status)
        /\ mapper.git.staged \notin {"Ignored", "Conflicted"}
        /\ \A other \in SUBSET (StatusFlags \ UnstagedFlags) :
              WorkingTreeStatus((mapper.status \cap UnstagedFlags) \cup other)
                  = mapper.git.unstaged
        /\ \A other \in SUBSET (StatusFlags \ IndexFlags) :
              IndexStatus((mapper.status \cap IndexFlags) \cup other)
                  = mapper.git.staged

\* A flag set with IGNORED, CONFLICTED and two index flags was reduced to
\* unstaged Ignored and staged Renamed.
C19_Witness ==
    /\ mapper.done
    /\ mapper.status =
          {"IGNORED", "CONFLICTED", "INDEX_RENAMED", "INDEX_TYPECHANGE"}
    /\ mapper.git = [staged |-> "Renamed", unstaged |-> "Ignored"]

-----------------------------------------------------------------------------
(* The fold of file_status, checked under SpecStatus *)

\* The entries file_status is said to fold: those at the path itself, and
\* those at or above it that carry the IGNORED flag.
FoldedForFile(path) ==
    {e \in Entries :
        \/ e.path = path
        \/ "IGNORED" \in e.status /\ StartsWith(path, e.path)}

\* C20: file_status of a path is the reduction, by the two waterfalls, of
\* the union of the flags of the entries whose path is the queried path and
\* of the entries that carry IGNORED, alone or with other flags, and whose
\* path is a prefix of the queried path; a path with no entry of its own and
\* no ignored ancestor gives (NotModified, NotModified).
C20_FileStatusFold ==
    (lookup.done /\ ~lookup.prefix_lookup) =>
        /\ lookup.git = Git(UnionOf({e.status : e \in FoldedForFile(LookedUp)}))
        /\ FoldedForFile(LookedUp) = {} => lookup.git = DefaultGit

====
